---- MODULE Spec2Model ----
(***************************************************************************)
(* The epoch-based cancellation coordinator of the language server:        *)
(* core/lsp/TypecheckEpochManager.cc.  Three atomic epoch counters, one    *)
(* mutex and two thread-identity slots, driven by the typechecking thread, *)
(* the preprocess thread and worker threads.  Every method is modelled as  *)
(* the sequence of its atomic steps, so that the lock-free reads and the   *)
(* unlocked thread-identity guard interleave as they do in the code.       *)
(***************************************************************************)
EXTENDS Integers, FiniteSets, TLC

VARIABLES
    lastCommittedLSPEpoch,       \* atomic<u4>
    currentlyProcessingLSPEpoch, \* atomic<u4>
    lspEpochInvalidator,         \* atomic<u4>
    epochMutex,                  \* "free" or the thread holding it
    preprocessThreadId,          \* optional<thread::id>: "none" or a thread
    typecheckingThreadId,        \* optional<thread::id>: "none" or a thread
    debug_mode,                  \* whether ENFORCE is compiled in
    pc,                          \* each thread's position in the code
    arg,                         \* the arguments of each thread's current call
    local,                       \* a thread's local: `committed` (line 84), or a worker's first load
    ret,                         \* what each thread's last call returned
    invoked,                     \* runs of typecheck() and of the hook within the tryCommitEpoch in progress
    hookStatus,                  \* the status a getStatus made from inside the hook returned
    attempt,                     \* history of the current slow-path attempt
    image                        \* the same run with every epoch argument relabelled: the relabelling, and the counters of that run

vars == <<lastCommittedLSPEpoch, currentlyProcessingLSPEpoch, lspEpochInvalidator,
          epochMutex, preprocessThreadId, typecheckingThreadId, debug_mode,
          pc, arg, local, ret, invoked, hookStatus, attempt, image>>

epochs == <<lastCommittedLSPEpoch, currentlyProcessingLSPEpoch, lspEpochInvalidator>>

\* Epoch values are 0..MaxEpoch: the code only ever compares epochs for equality.
MaxEpoch == 2
Epochs == 0..MaxEpoch

T == "typecheck"
P == "preprocess"
W == "worker"
Threads == {T, P, W}

NoArg == [fromEpoch |-> 0, toEpoch |-> 0, isCancelable |-> FALSE, preemptionManager |-> FALSE]
NoRet == [op |-> "none", val |-> "none"]
\* hookStatus holds at most one status
NoStatus == {}
BoolStr(b) == IF b THEN "true" ELSE "false"

\* ENFORCE(cond): checked where debug_mode is set (then a failure raises), compiled
\* out otherwise ("guard against it in production", line 60).
EnforceFails(cond) == debug_mode /\ ~cond

\* (slowPathCanceled derived from the committed epoch)
getStatusInternalCanceledFromCommitted(processing, committed, invalidator) ==
    [slowPathRunning |-> processing # committed,
     slowPathCanceled |-> processing # committed,
     committedEpoch |-> committed,
     processingEpoch |-> processing]

\* getStatusInternal, lines 40-47.
getStatusInternal(processing, committed, invalidator) ==
    [slowPathRunning |-> processing # committed,
     slowPathCanceled |-> processing # invalidator,
     committedEpoch |-> committed,
     processingEpoch |-> processing]

Status == getStatusInternal(currentlyProcessingLSPEpoch, lastCommittedLSPEpoch, lspEpochInvalidator)

Goto(t, l) == pc' = [pc EXCEPT ![t] = l]
Return(t, op, val) ==
    /\ pc' = [pc EXCEPT ![t] = "idle"]
    /\ arg' = [arg EXCEPT ![t] = NoArg]
    /\ ret' = [ret EXCEPT ![t] = [op |-> op, val |-> val]]
\* the return of a void method
ReturnVoid(t) ==
    /\ pc' = [pc EXCEPT ![t] = "idle"]
    /\ arg' = [arg EXCEPT ![t] = NoArg]
    /\ ret' = [ret EXCEPT ![t] = NoRet]
\* Exception::raise / a failed ENFORCE: the call never returns.
Raise(t, op) ==
    /\ pc' = [pc EXCEPT ![t] = "fatal"]
    /\ arg' = [arg EXCEPT ![t] = NoArg]
    /\ ret' = [ret EXCEPT ![t] = [op |-> op, val |-> "fatal"]]

\* The run in which every epoch argument e is replaced by f[e]: its counters start
\* as those of the original run do.
ImageInit(f) ==
    [f |-> f, lastCommittedLSPEpoch |-> 0, currentlyProcessingLSPEpoch |-> 0,
     lspEpochInvalidator |-> 0]

Identity == [e \in Epochs |-> e]

InitManager ==
    /\ lastCommittedLSPEpoch = 0
    /\ currentlyProcessingLSPEpoch = 0
    /\ lspEpochInvalidator = 0
    /\ epochMutex = "free"
    /\ preprocessThreadId = "none"
    /\ typecheckingThreadId = "none"
    /\ debug_mode \in BOOLEAN
    /\ pc = [t \in Threads |-> "idle"]
    /\ arg = [t \in Threads |-> NoArg]
    /\ local = [t \in Threads |-> "none"]
    /\ ret = [t \in Threads |-> NoRet]
    /\ invoked = [typecheck |-> 0, hook |-> 0]
    /\ hookStatus = NoStatus
    /\ attempt = [inFlight |-> FALSE, fromEpoch |-> 0, toEpoch |-> 0, committedBefore |-> 0,
                  cancelTrue |-> FALSE, oneCancel |-> "none", lastCommit |-> "none",
                  firstCancelCaller |-> "none", firstCommitCaller |-> "none"]

Init == InitManager /\ image = ImageInit(Identity)

----
\* startCommitEpoch, lines 16-32

TcspPcs == {"tcsp_assert_set", "tcsp_lock", "tcsp_store"}

\* The values startCommitEpoch stores (lines 24, 25, 31).
\* (processing set to the epoch of the last fast path)
StartProcessingValueFrom(fromEpoch, toEpoch) == fromEpoch
StartProcessingValue(fromEpoch, toEpoch) == toEpoch
\* (the invalidator set to the epoch of the last fast path)
StartInvalidatorValueFrom(fromEpoch, toEpoch) == fromEpoch
StartInvalidatorValue(fromEpoch, toEpoch) == toEpoch
\* (committed set to the epoch being opened)
StartCommittedValueTo(fromEpoch, toEpoch) == toEpoch
StartCommittedValue(fromEpoch, toEpoch) == fromEpoch

SceCall(t, fromEpoch, toEpoch) ==
    /\ pc[t] = "idle"
    /\ Goto(t, "sce_lock")
    /\ arg' = [arg EXCEPT ![t] = [NoArg EXCEPT !.fromEpoch = fromEpoch, !.toEpoch = toEpoch]]
    /\ ret' = [ret EXCEPT ![t] = NoRet]
    /\ attempt' = [attempt EXCEPT
                     !.inFlight = TRUE, !.fromEpoch = fromEpoch, !.toEpoch = toEpoch,
                     !.committedBefore = Status.committedEpoch,
                     !.cancelTrue = FALSE,
                     !.oneCancel = IF \E u \in Threads : pc[u] \in TcspPcs THEN "pending" ELSE "none",
                     !.lastCommit = "pending"]
    /\ UNCHANGED <<epochs, epochMutex, preprocessThreadId, typecheckingThreadId, debug_mode,
                   local, invoked, hookStatus>>
    /\ UNCHANGED image

\* line 17 (lock) and the ENFORCEs of lines 18-20
SceLock(t) ==
    /\ pc[t] = "sce_lock"
    /\ epochMutex = "free"
    /\ IF \/ EnforceFails(arg[t].fromEpoch # arg[t].toEpoch)
          \/ EnforceFails(arg[t].toEpoch # currentlyProcessingLSPEpoch)
          \/ EnforceFails(arg[t].toEpoch # lastCommittedLSPEpoch)
       THEN /\ Raise(t, "startCommitEpoch")
            /\ UNCHANGED epochMutex
       ELSE /\ Goto(t, "sce_store_processing")
            /\ epochMutex' = t
            /\ UNCHANGED <<arg, ret>>
    /\ UNCHANGED <<epochs, preprocessThreadId, typecheckingThreadId, debug_mode,
                   local, invoked, hookStatus, attempt>>
    /\ UNCHANGED image

\* line 24
SceStoreProcessing(t) ==
    /\ pc[t] = "sce_store_processing"
    /\ currentlyProcessingLSPEpoch' = StartProcessingValue(arg[t].fromEpoch, arg[t].toEpoch)
    /\ Goto(t, "sce_store_invalidator")
    /\ UNCHANGED <<lastCommittedLSPEpoch, lspEpochInvalidator, epochMutex, preprocessThreadId,
                   typecheckingThreadId, debug_mode, arg, local, ret, invoked, hookStatus, attempt>>
    /\ image' = [image EXCEPT !.currentlyProcessingLSPEpoch =
                           StartProcessingValue(image.f[arg[t].fromEpoch], image.f[arg[t].toEpoch])]

\* line 25
SceStoreInvalidator(t) ==
    /\ pc[t] = "sce_store_invalidator"
    /\ lspEpochInvalidator' = StartInvalidatorValue(arg[t].fromEpoch, arg[t].toEpoch)
    /\ Goto(t, "sce_store_committed")
    /\ UNCHANGED <<lastCommittedLSPEpoch, currentlyProcessingLSPEpoch, epochMutex, preprocessThreadId,
                   typecheckingThreadId, debug_mode, arg, local, ret, invoked, hookStatus, attempt>>
    /\ image' = [image EXCEPT !.lspEpochInvalidator =
                           StartInvalidatorValue(image.f[arg[t].fromEpoch], image.f[arg[t].toEpoch])]

\* lines 31-32: the last store, the unlock and the return
SceStoreCommitted(t) ==
    /\ pc[t] = "sce_store_committed"
    /\ lastCommittedLSPEpoch' = StartCommittedValue(arg[t].fromEpoch, arg[t].toEpoch)
    /\ epochMutex' = "free"
    /\ ReturnVoid(t)
    /\ UNCHANGED <<currentlyProcessingLSPEpoch, lspEpochInvalidator, preprocessThreadId,
                   typecheckingThreadId, debug_mode, local, invoked, hookStatus, attempt>>
    /\ image' = [image EXCEPT !.lastCommittedLSPEpoch =
                           StartCommittedValue(image.f[arg[t].fromEpoch], image.f[arg[t].toEpoch])]

----
\* getStatus, lines 49-52, and withEpochLock, lines 111-114

GsCall(t) ==
    /\ pc[t] = "idle"
    /\ Goto(t, "gs_lock")
    /\ ret' = [ret EXCEPT ![t] = NoRet]
    /\ UNCHANGED <<epochs, epochMutex, preprocessThreadId, typecheckingThreadId, debug_mode,
                   arg, local, invoked, hookStatus, attempt>>
    /\ UNCHANGED image

GsLocked(t) ==
    /\ pc[t] = "gs_lock"
    /\ epochMutex = "free"
    /\ Return(t, "getStatus", Status)
    /\ UNCHANGED <<epochs, epochMutex, preprocessThreadId, typecheckingThreadId, debug_mode,
                   local, invoked, hookStatus, attempt>>
    /\ UNCHANGED image

WelCall(t) ==
    /\ pc[t] = "idle"
    /\ Goto(t, "wel_lock")
    /\ ret' = [ret EXCEPT ![t] = NoRet]
    /\ UNCHANGED <<epochs, epochMutex, preprocessThreadId, typecheckingThreadId, debug_mode,
                   arg, local, invoked, hookStatus, attempt>>
    /\ UNCHANGED image

\* line 112: the lock; line 113: the lambda is handed getStatusInternal(), which is
\* Status for as long as the lambda runs, the lock being held
WelLock(t) ==
    /\ pc[t] = "wel_lock"
    /\ epochMutex = "free"
    /\ epochMutex' = t
    /\ Goto(t, "wel_lambda")
    /\ UNCHANGED <<epochs, preprocessThreadId, typecheckingThreadId, debug_mode,
                   arg, local, ret, invoked, hookStatus, attempt>>
    /\ UNCHANGED image

\* the lambda returns, the lock is released
WelUnlock(t) ==
    /\ pc[t] = "wel_lambda"
    /\ epochMutex' = "free"
    /\ ReturnVoid(t)
    /\ UNCHANGED <<epochs, preprocessThreadId, typecheckingThreadId, debug_mode,
                   local, invoked, hookStatus, attempt>>
    /\ UNCHANGED image

----
\* (a guard that pins the first caller and never raises)
AssertConsistentThreadNeverRaises(expectedThreadId, self) ==
    IF expectedThreadId = "none" THEN "set" ELSE "pass"

\* assertConsistentThread, lines 7-14: what a call does with the slot it reads.
AssertConsistentThread(expectedThreadId, self) ==
    IF expectedThreadId = "none" THEN "set"
    ELSE IF expectedThreadId # self THEN "raise"
    ELSE "pass"

\* History: a tryCancelSlowPath call that overlaps the attempt (from the call of
\* startCommitEpoch to the return of its tryCommitEpoch) is counted, and the
\* result of the only such call is kept.
CountCall(a) ==
    IF a.lastCommit = "pending"
    THEN [a EXCEPT !.oneCancel = IF @ = "none" THEN "pending" ELSE "many"]
    ELSE a
\* History: the thread that made the first call of each thread-pinned method.
FirstCancel(a, t) == [a EXCEPT !.firstCancelCaller = IF @ = "none" THEN t ELSE @]
FirstCommit(a, t) == [a EXCEPT !.firstCommitCaller = IF @ = "none" THEN t ELSE @]
CountReturn(a, val) ==
    IF a.oneCancel = "pending" THEN [a EXCEPT !.oneCancel = val] ELSE a

----
\* tryCancelSlowPath, lines 54-67

\* (the test for a running slow path left out)
CancelDecisionIgnoresIdle(processing, committed, newEpoch) == ~(newEpoch = processing)
\* (no early return at all)
CancelDecisionAlways(processing, committed, newEpoch) == TRUE
\* line 61, negated: whether the call goes on to cancel
CancelDecision(processing, committed, newEpoch) ==
    ~(processing = committed \/ newEpoch = processing)

\* (the invalidator set to the epoch in progress)
CancelInvalidatorValueProcessing(newEpoch, processing) == processing
\* line 65: what a cancellation stores in the invalidator
CancelInvalidatorValue(newEpoch, processing) == newEpoch

\* the call, and line 55: the guard reads the slot (no lock is held)
TcspCall(t, newEpoch) ==
    /\ pc[t] = "idle"
    /\ LET a == [NoArg EXCEPT !.toEpoch = newEpoch]
           r == AssertConsistentThread(preprocessThreadId, t)
       IN  IF r = "raise"
           THEN /\ Raise(t, "tryCancelSlowPath")
                /\ attempt' = FirstCancel(CountReturn(CountCall(attempt), "fatal"), t)
           ELSE /\ Goto(t, IF r = "set" THEN "tcsp_assert_set" ELSE "tcsp_lock")
                /\ arg' = [arg EXCEPT ![t] = a]
                /\ ret' = [ret EXCEPT ![t] = NoRet]
                /\ attempt' = FirstCancel(CountCall(attempt), t)
    /\ UNCHANGED <<epochs, epochMutex, preprocessThreadId, typecheckingThreadId, debug_mode,
                   local, invoked, hookStatus>>
    /\ UNCHANGED image

\* line 10: the guard fills the slot it found empty
TcspAssertSet(t) ==
    /\ pc[t] = "tcsp_assert_set"
    /\ preprocessThreadId' = t
    /\ Goto(t, "tcsp_lock")
    /\ UNCHANGED <<epochs, epochMutex, typecheckingThreadId, debug_mode,
                   arg, local, ret, invoked, hookStatus, attempt>>
    /\ UNCHANGED image

\* lines 56-63: the lock, the two loads, the ENFORCE and the early return
TcspLock(t) ==
    /\ pc[t] = "tcsp_lock"
    /\ epochMutex = "free"
    /\ LET processing == currentlyProcessingLSPEpoch
           committed == lastCommittedLSPEpoch
       IN  IF EnforceFails(arg[t].toEpoch # processing)
           THEN /\ Raise(t, "tryCancelSlowPath")
                /\ attempt' = CountReturn(attempt, "fatal")
                /\ UNCHANGED epochMutex
           ELSE IF ~CancelDecision(processing, committed, arg[t].toEpoch)
           THEN /\ Return(t, "tryCancelSlowPath", "false")
                /\ attempt' = CountReturn(attempt, "false")
                /\ UNCHANGED epochMutex
           ELSE /\ Goto(t, "tcsp_store")
                /\ epochMutex' = t
                /\ UNCHANGED <<arg, ret, attempt>>
    /\ UNCHANGED <<epochs, preprocessThreadId, typecheckingThreadId, debug_mode,
                   local, invoked, hookStatus>>
    /\ UNCHANGED image

\* lines 65-67: the store, the return of true, the unlock
TcspStore(t) ==
    /\ pc[t] = "tcsp_store"
    /\ lspEpochInvalidator' = CancelInvalidatorValue(arg[t].toEpoch, currentlyProcessingLSPEpoch)
    /\ epochMutex' = "free"
    /\ Return(t, "tryCancelSlowPath", "true")
    /\ attempt' = CountReturn([attempt EXCEPT !.cancelTrue = TRUE], "true")
    /\ UNCHANGED <<lastCommittedLSPEpoch, currentlyProcessingLSPEpoch, preprocessThreadId,
                   typecheckingThreadId, debug_mode, local, invoked, hookStatus>>
    /\ image' = [image EXCEPT !.lspEpochInvalidator =
                           CancelInvalidatorValue(image.f[arg[t].toEpoch], image.currentlyProcessingLSPEpoch)]

----
\* tryCommitEpoch, lines 69-109

\* (the epochs compared by their order)
CommitDecisionNotBehind(processing, invalidator) == processing >= invalidator
\* (a commit that does not look at the invalidator)
CommitDecisionIgnoresInvalidator(processing, invalidator) == TRUE
\* (the comparison inverted)
CommitDecisionInverted(processing, invalidator) == processing # invalidator
\* line 90: whether the attempt commits
CommitDecision(processing, invalidator) == processing = invalidator
\* lines 97-99: what the rollback stores in processing and in invalidator
\* (the rollback leaves processing at the abandoned epoch)
RollbackProcessingValueKept(lastCommitted, processing) == processing
RollbackProcessingValue(lastCommitted, processing) == lastCommitted
\* (the rollback leaves the invalidator as the cancellation set it)
RollbackInvalidatorValueKept(lastCommitted, invalidator) == invalidator
RollbackInvalidatorValue(lastCommitted, invalidator) == lastCommitted
\* (the hook run after a commit only, not after a rollback)
HookRunsOnCommitOnly(preemptionManager, committed) == preemptionManager /\ committed
\* line 103: whether the hook is run
HookRuns(preemptionManager, committed) == preemptionManager

\* (the lock scope extended over the hook)
CriticalSectionExitHeld(t) == t
\* line 101: the scope of the MutexLock of line 86 ends before the hook of line 103
CriticalSectionExit(t) == "free"
\* (the lock taken before typecheck() is called)
MutexWhileTypecheckHeld(t, mutex) == t
\* lines 74 and 82: typecheck() is called with no lock of this method in scope
MutexWhileTypecheck(t, mutex) == mutex

\* the call, and line 72: the guard reads the slot (no lock is held)
TceCall(t, epoch, isCancelable, preemptionManager) ==
    /\ pc[t] = "idle"
    /\ LET a == [NoArg EXCEPT !.toEpoch = epoch, !.isCancelable = isCancelable,
                              !.preemptionManager = preemptionManager]
           r == AssertConsistentThread(typecheckingThreadId, t)
       IN  IF r = "raise"
           THEN Raise(t, "tryCommitEpoch")
           ELSE /\ Goto(t, IF r = "set" THEN "tce_assert_set" ELSE "tce_begin")
                /\ arg' = [arg EXCEPT ![t] = a]
                /\ ret' = [ret EXCEPT ![t] = NoRet]
    /\ invoked' = [typecheck |-> 0, hook |-> 0]
    /\ hookStatus' = NoStatus
    /\ attempt' = FirstCommit(attempt, t)
    /\ UNCHANGED <<epochs, epochMutex, preprocessThreadId, typecheckingThreadId, debug_mode,
                   local>>
    /\ UNCHANGED image

\* line 10
TceAssertSet(t) ==
    /\ pc[t] = "tce_assert_set"
    /\ typecheckingThreadId' = t
    /\ Goto(t, "tce_begin")
    /\ UNCHANGED <<epochs, epochMutex, preprocessThreadId, debug_mode,
                   arg, local, ret, invoked, hookStatus, attempt>>
    /\ UNCHANGED image

\* (the ENFORCE of line 79 placed before the test of the mode)
EnforcedModeAlways(isCancelable) == TRUE
\* lines 73-76: the non-cancelable mode returns before the ENFORCE of line 79
EnforcedMode(isCancelable) == isCancelable

\* lines 73, 79 and 74/82: the mode, the ENFORCE of the cancelable mode, and the
\* call of typecheck()
TceBegin(t) ==
    /\ pc[t] = "tce_begin"
    /\ IF EnforcedMode(arg[t].isCancelable) /\ EnforceFails(currentlyProcessingLSPEpoch = arg[t].toEpoch)
       THEN /\ Raise(t, "tryCommitEpoch")
            /\ UNCHANGED <<invoked, epochMutex>>
       ELSE /\ Goto(t, "tce_typecheck")
            /\ invoked' = [invoked EXCEPT !.typecheck = @ + 1]
            /\ epochMutex' = MutexWhileTypecheck(t, epochMutex)
            /\ UNCHANGED <<arg, ret>>
    /\ UNCHANGED <<epochs, preprocessThreadId, typecheckingThreadId, debug_mode,
                   local, hookStatus, attempt>>
    /\ UNCHANGED image

\* lines 74-75 and 82-84: typecheck() returns
TceTypecheck(t) ==
    /\ pc[t] = "tce_typecheck"
    /\ IF ~arg[t].isCancelable
       THEN /\ Return(t, "tryCommitEpoch", "true")
            /\ invoked' = [typecheck |-> 0, hook |-> 0]
            /\ UNCHANGED local
       ELSE /\ Goto(t, "tce_lock")
            /\ local' = [local EXCEPT ![t] = FALSE]
            /\ UNCHANGED <<arg, ret, invoked>>
    /\ UNCHANGED <<epochs, epochMutex, preprocessThreadId, typecheckingThreadId, debug_mode,
                   hookStatus, attempt>>
    /\ UNCHANGED image

\* History: a poll in progress when the critical section of tryCommitEpoch begins
\* was not made within the window of the attempt.
EndWindow(l) ==
    [u \in Threads |-> IF pc[u] = "wtc_second" THEN [l[u] EXCEPT !.window = FALSE] ELSE l[u]]

\* lines 86-91 and 95: the lock, the two loads, the decision, the ENFORCE
TceLock(t) ==
    /\ pc[t] = "tce_lock"
    /\ epochMutex = "free"
    /\ LET processing == currentlyProcessingLSPEpoch
           invalidator == lspEpochInvalidator
       IN  IF CommitDecision(processing, invalidator)
           THEN IF EnforceFails(lastCommittedLSPEpoch # processing)
                THEN /\ Raise(t, "tryCommitEpoch")
                     /\ UNCHANGED epochMutex
                ELSE /\ Goto(t, "tce_commit")
                     /\ epochMutex' = t
                     /\ UNCHANGED <<arg, ret>>
           ELSE /\ Goto(t, "tce_rb_processing")
                /\ epochMutex' = t
                /\ UNCHANGED <<arg, ret>>
    /\ local' = EndWindow(local)
    /\ UNCHANGED <<epochs, preprocessThreadId, typecheckingThreadId, debug_mode,
                   invoked, hookStatus, attempt>>
    /\ UNCHANGED image

\* lines 93-94 and 101: the commit, and the unlock
TceCommit(t) ==
    /\ pc[t] = "tce_commit"
    /\ lastCommittedLSPEpoch' = currentlyProcessingLSPEpoch
    /\ local' = [local EXCEPT ![t] = TRUE]
    /\ epochMutex' = CriticalSectionExit(t)
    /\ Goto(t, "tce_hook")
    /\ attempt' = [attempt EXCEPT !.inFlight = FALSE]
    /\ UNCHANGED <<currentlyProcessingLSPEpoch, lspEpochInvalidator, preprocessThreadId,
                   typecheckingThreadId, debug_mode, arg, ret, invoked, hookStatus>>
    /\ image' = [image EXCEPT !.lastCommittedLSPEpoch = image.currentlyProcessingLSPEpoch]

\* lines 97-98
TceRollbackProcessing(t) ==
    /\ pc[t] = "tce_rb_processing"
    /\ currentlyProcessingLSPEpoch' =
           RollbackProcessingValue(lastCommittedLSPEpoch, currentlyProcessingLSPEpoch)
    /\ Goto(t, "tce_rb_invalidator")
    /\ UNCHANGED <<lastCommittedLSPEpoch, lspEpochInvalidator, epochMutex, preprocessThreadId,
                   typecheckingThreadId, debug_mode, arg, local, ret, invoked, hookStatus, attempt>>
    /\ image' = [image EXCEPT !.currentlyProcessingLSPEpoch =
                           RollbackProcessingValue(image.lastCommittedLSPEpoch, image.currentlyProcessingLSPEpoch)]

\* lines 99-101: the second store of the rollback, and the unlock
TceRollbackInvalidator(t) ==
    /\ pc[t] = "tce_rb_invalidator"
    /\ lspEpochInvalidator' = RollbackInvalidatorValue(lastCommittedLSPEpoch, lspEpochInvalidator)
    /\ epochMutex' = CriticalSectionExit(t)
    /\ Goto(t, "tce_hook")
    /\ attempt' = [attempt EXCEPT !.inFlight = FALSE]
    /\ UNCHANGED <<lastCommittedLSPEpoch, currentlyProcessingLSPEpoch, preprocessThreadId,
                   typecheckingThreadId, debug_mode, arg, local, ret, invoked, hookStatus>>
    /\ image' = [image EXCEPT !.lspEpochInvalidator =
                           RollbackInvalidatorValue(image.lastCommittedLSPEpoch, image.lspEpochInvalidator)]

\* lines 103-106: tryRunScheduledPreemptionTask is called, if there is a hook
TceHook(t) ==
    /\ pc[t] = "tce_hook"
    /\ IF HookRuns(arg[t].preemptionManager, local[t])
       THEN /\ invoked' = [invoked EXCEPT !.hook = @ + 1]
            /\ Goto(t, "tce_in_hook")
       ELSE /\ Goto(t, "tce_return")
            /\ UNCHANGED invoked
    /\ UNCHANGED <<epochs, epochMutex, preprocessThreadId, typecheckingThreadId, debug_mode,
                   arg, local, ret, hookStatus, attempt>>
    /\ UNCHANGED image

\* the hook's body: it may call getStatus (lines 49-52), which takes the lock
TceInHook(t) ==
    /\ pc[t] = "tce_in_hook"
    /\ epochMutex = "free"
    /\ hookStatus' = {Status}
    /\ Goto(t, "tce_return")
    /\ UNCHANGED <<epochs, epochMutex, preprocessThreadId, typecheckingThreadId, debug_mode,
                   arg, local, ret, invoked, attempt>>
    /\ UNCHANGED image

\* line 108
TceReturn(t) ==
    /\ pc[t] = "tce_return"
    /\ Return(t, "tryCommitEpoch", BoolStr(local[t]))
    /\ local' = [local EXCEPT ![t] = "none"]
    /\ attempt' = [attempt EXCEPT !.lastCommit = BoolStr(local[t])]
    /\ invoked' = [typecheck |-> 0, hook |-> 0]
    /\ hookStatus' = NoStatus
    /\ UNCHANGED <<epochs, epochMutex, preprocessThreadId, typecheckingThreadId, debug_mode>>
    /\ UNCHANGED image

----
\* wasTypecheckingCanceled, lines 34-38: two atomic loads, no lock.  The order in
\* which the operands of != are evaluated is unspecified, so either load may
\* come first.

WasCanceledResult(invalidator, processing) == invalidator # processing

\* History: startCommitEpoch has returned and the critical section of the attempt's
\* tryCommitEpoch has not begun.
Window ==
    /\ attempt.inFlight
    /\ pc[T] \notin {"sce_lock", "sce_store_processing", "sce_store_invalidator",
                     "sce_store_committed", "tce_commit", "tce_rb_processing",
                     "tce_rb_invalidator"}

\* The call and the first load.  When observed, the poll records whether it began
\* within the window, and whether a cancellation had been stored by then.
WtcLoad(t, observed) ==
    /\ pc[t] = "idle"
    /\ \E first \in {"invalidator", "processing"} :
          local' = [local EXCEPT ![t] =
                      [first |-> first,
                       val |-> IF first = "invalidator" THEN lspEpochInvalidator
                               ELSE currentlyProcessingLSPEpoch,
                       window |-> observed /\ Window,
                       canceled |-> observed /\ Window /\ attempt.cancelTrue]]
    /\ Goto(t, "wtc_second")
    /\ ret' = [ret EXCEPT ![t] = NoRet]
    /\ UNCHANGED <<epochs, epochMutex, preprocessThreadId, typecheckingThreadId, debug_mode,
                   arg, invoked, hookStatus, attempt>>
    /\ UNCHANGED image

WtcCall(t) == WtcLoad(t, FALSE)

WtcCallObserved(t) == WtcLoad(t, TRUE)

WtcSecond(t) ==
    /\ pc[t] = "wtc_second"
    /\ LET r == IF local[t].first = "invalidator"
                THEN WasCanceledResult(local[t].val, currentlyProcessingLSPEpoch)
                ELSE WasCanceledResult(lspEpochInvalidator, local[t].val)
       IN  /\ pc' = [pc EXCEPT ![t] = "idle"]
           /\ ret' = [ret EXCEPT ![t] = [op |-> "wasTypecheckingCanceled", val |-> BoolStr(r)]]
    /\ local' = [local EXCEPT ![t] = "none"]
    /\ UNCHANGED <<epochs, epochMutex, preprocessThreadId, typecheckingThreadId, debug_mode,
                   arg, invoked, hookStatus, attempt>>
    /\ UNCHANGED image

----
\* The calls each role makes (spec section 5), with arguments that meet the
\* methods' preconditions, and the steps of the calls in progress.

\* The typechecking thread opens a slow path when none is in flight.
StartCommitEpoch ==
    \E fromEpoch \in Epochs, toEpoch \in Epochs :
        /\ ~attempt.inFlight
        /\ fromEpoch # toEpoch
        /\ toEpoch # currentlyProcessingLSPEpoch
        /\ toEpoch # lastCommittedLSPEpoch
        /\ SceCall(T, fromEpoch, toEpoch)

\* ... and then tries to commit the epoch it opened.
TryCommitEpochCancelable ==
    \E preemptionManager \in BOOLEAN :
        /\ attempt.inFlight
        /\ TceCall(T, attempt.toEpoch, TRUE, preemptionManager)

\* A non-cancelable commit takes any epoch.
TryCommitEpochNonCancelable ==
    \E epoch \in Epochs, preemptionManager \in BOOLEAN :
        TceCall(T, epoch, FALSE, preemptionManager)

TryCancelSlowPath == \E newEpoch \in Epochs : TcspCall(P, newEpoch)

GetStatus == \E t \in {T, P} : GsCall(t)

WithEpochLock == \E t \in {T, P} : WelCall(t)

WasTypecheckingCanceled == WtcCall(W)

CoordinatorStep(t) ==
    \/ SceLock(t) \/ SceStoreProcessing(t) \/ SceStoreInvalidator(t) \/ SceStoreCommitted(t)
    \/ TcspAssertSet(t) \/ TcspLock(t) \/ TcspStore(t)
    \/ TceAssertSet(t) \/ TceBegin(t) \/ TceTypecheck(t) \/ TceLock(t) \/ TceCommit(t)
    \/ TceRollbackProcessing(t) \/ TceRollbackInvalidator(t)
    \/ TceHook(t) \/ TceInHook(t) \/ TceReturn(t)

StatusStep(t) == GsLocked(t) \/ WelLock(t) \/ WelUnlock(t)

\* The typechecking and the preprocess thread, every method they may call.
Next ==
    \/ StartCommitEpoch
    \/ TryCommitEpochCancelable
    \/ TryCommitEpochNonCancelable
    \/ TryCancelSlowPath
    \/ GetStatus
    \/ WithEpochLock
    \/ \E t \in {T, P} : CoordinatorStep(t) \/ StatusStep(t)

Spec == Init /\ [][Next]_vars

\* The three roles: the slow path, its cancellation and the workers' lock-free poll.
NextWorkers ==
    \/ StartCommitEpoch
    \/ TryCommitEpochCancelable
    \/ TryCommitEpochNonCancelable
    \/ TryCancelSlowPath
    \/ WasTypecheckingCanceled
    \/ \E t \in {T, P} : CoordinatorStep(t)
    \/ WtcSecond(W)

SpecWorkers == Init /\ [][NextWorkers]_vars

\* Misuse of the thread-pinned methods: next to their own calls, the typechecking
\* thread calls tryCancelSlowPath and the preprocess thread calls tryCommitEpoch.
MisuseTryCancelSlowPath == \E newEpoch \in Epochs : TcspCall(T, newEpoch)

\* (in the non-cancelable mode: the guard of line 72 comes before the mode is looked at)
MisuseTryCommitEpoch == TceCall(P, currentlyProcessingLSPEpoch, FALSE, FALSE)

\* The first slow-path attempt is what the misuse is interleaved with.
FirstStartCommitEpoch == attempt.lastCommit = "none" /\ StartCommitEpoch

NextMisuse ==
    \/ FirstStartCommitEpoch
    \/ TryCommitEpochCancelable
    \/ TryCancelSlowPath
    \/ MisuseTryCancelSlowPath
    \/ MisuseTryCommitEpoch
    \/ \E t \in {T, P} : CoordinatorStep(t)

SpecMisuse == Init /\ [][NextMisuse]_vars

\* Relabellings of the epoch values.  A u4 value from 2^31 on is written as the
\* 32-bit integer of the same bit pattern: 2^32 - e is -e, and 2^32 - 1 - e is -1 - e.
\* Negate fixes 0 and sends every other epoch e to 2^32 - e, reversing their order;
\* ReverseNonZero permutes the epochs other than 0; Rotate and Complement move 0.
Negate == [e \in Epochs |-> 0 - e]
ReverseNonZero == [e \in Epochs |-> IF e = 0 THEN 0 ELSE MaxEpoch + 1 - e]
Rotate == [e \in Epochs |-> (e + 1) % (MaxEpoch + 1)]
Complement == [e \in Epochs |-> 0 - 1 - e]
Relabellings == {Identity, Negate, ReverseNonZero, Rotate, Complement}

InitRelabel == InitManager /\ \E f \in Relabellings : image = ImageInit(f)

GetStatusPreprocess == GsCall(P)

\* A run of the protocol next to the run with relabelled epoch arguments.
NextRelabel ==
    \/ StartCommitEpoch
    \/ TryCommitEpochCancelable
    \/ TryCancelSlowPath
    \/ GetStatusPreprocess
    \/ \E t \in {T, P} : CoordinatorStep(t)
    \/ GsLocked(P)

SpecRelabel == InitRelabel /\ [][NextRelabel]_vars

\* One slow-path attempt and the preprocess thread's calls, under fair scheduling:
\* a thread that can take a step infinitely often takes it (the mutex is fair), but
\* typecheck() need never return.
PreprocessCalls == TryCancelSlowPath \/ GsCall(P) \/ WelCall(P)

TypecheckThreadStep ==
    \/ SceLock(T) \/ SceStoreProcessing(T) \/ SceStoreInvalidator(T) \/ SceStoreCommitted(T)
    \/ TceAssertSet(T) \/ TceBegin(T) \/ TceLock(T) \/ TceCommit(T)
    \/ TceRollbackProcessing(T) \/ TceRollbackInvalidator(T)
    \/ TceHook(T) \/ TceInHook(T) \/ TceReturn(T)

PreprocessThreadStep ==
    \/ TcspAssertSet(P) \/ TcspLock(P) \/ TcspStore(P)
    \/ GsLocked(P) \/ WelLock(P) \/ WelUnlock(P)

NextFair ==
    \/ FirstStartCommitEpoch
    \/ TryCommitEpochCancelable
    \/ TryCommitEpochNonCancelable
    \/ PreprocessCalls
    \/ TypecheckThreadStep
    \/ TceTypecheck(T)
    \/ PreprocessThreadStep

SpecFair ==
    /\ Init
    /\ [][NextFair]_vars
    /\ SF_vars(TypecheckThreadStep)
    /\ SF_vars(PreprocessThreadStep)

\* The slow path, its cancellation and a worker whose polls are observed.
NextPoll ==
    \/ StartCommitEpoch
    \/ TryCommitEpochCancelable
    \/ TryCancelSlowPath
    \/ WtcCallObserved(W)
    \/ \E t \in {T, P} : CoordinatorStep(t)
    \/ WtcSecond(W)

SpecPoll == Init /\ [][NextPoll]_vars

----
\* The properties.

\* The attempt's tryCommitEpoch has returned, and no startCommitEpoch was called since.
CommitReturned == attempt.lastCommit \in {"true", "false"}

\* A getStatus call of thread t returns in this step.
GetStatusReturns(t) == pc[t] = "gs_lock" /\ pc'[t] = "idle"

ScePcs == {"sce_lock", "sce_store_processing", "sce_store_invalidator", "sce_store_committed"}

TcePastGuard == {"tce_typecheck", "tce_lock", "tce_commit", "tce_rb_processing",
                 "tce_rb_invalidator", "tce_hook", "tce_in_hook", "tce_return"}

ReturnedFrom(t, op) == ret[t].op = op /\ ret[t].val \in {"true", "false"}

----
\* In the states after the return of a tryCommitEpoch that a cancel preceded.
C1_RolledBackToFrom ==
    (CommitReturned /\ attempt.cancelTrue) =>
        /\ attempt.lastCommit = "false"
        /\ Status.committedEpoch = attempt.fromEpoch

\* What a getStatus returns there.
C1_GetStatusReportsFrom ==
    \A t \in {T, P} :
        (GetStatusReturns(t) /\ CommitReturned /\ attempt.cancelTrue) =>
            ret'[t].val.committedEpoch = attempt.fromEpoch

\* C1, as amended: if a tryCancelSlowPath returned true after startCommitEpoch(from, e)
\* and before the critical section of the cancelable tryCommitEpoch(e, ...), that
\* tryCommitEpoch returns false, and the committedEpoch getStatus reports afterwards
\* is `from`, the first argument of that startCommitEpoch.
C1_CancelForcesRollbackToFrom == [] C1_RolledBackToFrom /\ [][C1_GetStatusReportsFrom]_vars

\* C1 as stated: ... that tryCommitEpoch returns false, and the committedEpoch
\* reported afterwards is the one getStatus reported before startCommitEpoch was called.
C1_CommittedAsBeforeStart ==
    (CommitReturned /\ attempt.cancelTrue) =>
        /\ attempt.lastCommit = "false"
        /\ Status.committedEpoch = attempt.committedBefore

\* C1's case: a canceled attempt has been rolled back, its `from` was not the epoch
\* committed before it, and the preprocess thread's getStatus has reported `from`.
C1_Witness ==
    /\ pc[T] = "idle"
    /\ attempt.lastCommit = "false"
    /\ attempt.cancelTrue
    /\ attempt.fromEpoch # attempt.committedBefore
    /\ ret[P].op = "getStatus"
    /\ ret[P].val.committedEpoch = attempt.fromEpoch

----
C2_CommittedChange ==
    lastCommittedLSPEpoch' # lastCommittedLSPEpoch =>
        \/ /\ pc[T] = "tce_commit"
           /\ local'[T] = TRUE
           /\ lastCommittedLSPEpoch' = attempt.toEpoch
        \/ /\ pc[T] = "sce_store_committed"
           /\ lastCommittedLSPEpoch' = attempt.fromEpoch

\* C2, as amended: the committed epoch changes only in the commit of a tryCommitEpoch
\* that returns true, where it takes the `to` of the most recent startCommitEpoch,
\* and in startCommitEpoch itself, which sets it to its `from` argument; no other
\* operation changes it.
C2_CommittedChangesInCommitOrStart == [][C2_CommittedChange]_vars

\* C2 as stated: the committed epoch changes only in the commit of a tryCommitEpoch
\* that returns true, to the `to` of the most recent startCommitEpoch.
C2_CommittedChangesOnlyInCommit ==
    [][lastCommittedLSPEpoch' # lastCommittedLSPEpoch =>
          /\ pc[T] = "tce_commit"
          /\ local'[T] = TRUE
          /\ lastCommittedLSPEpoch' = attempt.toEpoch]_vars

\* C2's case: startCommitEpoch has returned and has changed the committed epoch.
C2_Witness ==
    /\ pc[T] = "idle"
    /\ attempt.lastCommit = "pending"
    /\ lastCommittedLSPEpoch = attempt.fromEpoch
    /\ lastCommittedLSPEpoch # attempt.committedBefore

----
\* C3: once some thread has made the first call of a thread-pinned method, no call
\* of that method by another thread gets past the guard: none reaches the epoch
\* counters or returns, in any interleaving, overlapping first calls included.
C3_SecondThreadNeverPasses ==
    \A t \in Threads :
        /\ (pc[t] = "tcsp_store" \/ ReturnedFrom(t, "tryCancelSlowPath"))
              => attempt.firstCancelCaller = t
        /\ (pc[t] \in TcePastGuard \/ ReturnedFrom(t, "tryCommitEpoch"))
              => attempt.firstCommitCaller = t

----
\* C4 as stated: a tryCancelSlowPath call of the typechecking thread never gets past
\* the guard, whatever preceded it.
C4_TypecheckThreadNeverCancels ==
    \A t \in Threads :
        typecheckingThreadId = t =>
            ~(pc[t] \in {"tcsp_lock", "tcsp_store"} \/ ReturnedFrom(t, "tryCancelSlowPath"))

\* Thread t calls tryCancelSlowPath in this step (the guard reads the slot).
TcspCalled(t) ==
    /\ pc[t] = "idle"
    /\ \/ pc'[t] \in {"tcsp_assert_set", "tcsp_lock"}
       \/ pc'[t] = "fatal" /\ ret'[t].op = "tryCancelSlowPath"

C4_GuardStep ==
    \A t \in Threads :
        /\ (typecheckingThreadId = t /\ TcspCalled(t)) =>
              /\ pc'[t] = "fatal" <=> preprocessThreadId \notin {"none", t}
              /\ preprocessThreadId = "none" => pc'[t] = "tcsp_assert_set"
        /\ (pc[t] = "tcsp_assert_set" /\ pc'[t] # pc[t]) =>
              /\ pc'[t] = "tcsp_lock"
              /\ preprocessThreadId' = t

\* C4, as amended: a tryCancelSlowPath call of the typechecking thread fails fatally
\* if and only if preprocessThreadId holds another thread's id when the guard reads
\* it; while the slot is empty the call goes on, and pins the typechecking thread
\* as the preprocess thread.
C4_TypecheckThreadFailsIffSlotTaken == [][C4_GuardStep]_vars

\* C4's case: the typechecking thread's tryCancelSlowPath has raised, the slot being
\* the preprocess thread's.
C4_Witness ==
    /\ typecheckingThreadId = T
    /\ preprocessThreadId = P
    /\ pc[T] = "fatal"
    /\ ret[T].op = "tryCancelSlowPath"

----
C5_CancelTrueIffCommitFalse ==
    (CommitReturned /\ attempt.oneCancel \in {"true", "false", "fatal"}) =>
        (attempt.oneCancel = "true" <=> attempt.lastCommit = "false")

C5_CancelStep ==
    /\ (pc[P] = "tcsp_store" /\ pc'[P] = "idle") => attempt.inFlight
    /\ (pc[P] = "tcsp_lock" /\ pc'[P] # "tcsp_lock" /\ ~attempt.inFlight) =>
          /\ ~Status.slowPathRunning
          /\ pc'[P] # "tcsp_store"
          /\ arg[P].toEpoch # currentlyProcessingLSPEpoch => ret'[P].val = "false"

\* C5: when one tryCancelSlowPath call overlaps the attempt (startCommitEpoch(_, e)
\* and its cancelable tryCommitEpoch(e, ...)), it returns true exactly when the
\* tryCommitEpoch returns false; a cancel returns true only before the commit's
\* critical section, and one that takes the mutex after it sees
\* processing == committed and returns false.
C5_CancelAndCommitAgree == [] C5_CancelTrueIffCommitFalse /\ [][C5_CancelStep]_vars

\* C5's case: the one cancel of the attempt returned true and the commit returned false.
C5_Witness ==
    /\ CommitReturned
    /\ attempt.oneCancel = "true"
    /\ attempt.lastCommit = "false"

----
\* C6: while no slow path is in flight (initially, and from the end of the critical
\* section of a cancelable tryCommitEpoch to the next call of startCommitEpoch),
\* processing = invalidator, so that a wasTypecheckingCanceled reading them gives false.
C6_IdleIsNotCanceled ==
    ~attempt.inFlight =>
        /\ currentlyProcessingLSPEpoch = lspEpochInvalidator
        /\ ~WasCanceledResult(lspEpochInvalidator, currentlyProcessingLSPEpoch)

\* C6's case: the rollback of a canceled attempt has just ended, and a worker's poll
\* has returned false.
C6_Witness ==
    /\ ~attempt.inFlight
    /\ attempt.cancelTrue
    /\ pc[T] = "tce_hook"
    /\ ret[W].op = "wasTypecheckingCanceled"
    /\ ret[W].val = "false"

----
\* The critical section of a tryCancelSlowPath of the preprocess thread, taken while
\* no slow path is in flight.
IdleCancelStep == pc[P] = "tcsp_lock" /\ pc'[P] # "tcsp_lock" /\ ~attempt.inFlight

\* C7 as stated: such a call returns false and changes no counter, whatever newEpoch.
C7_IdleCancelReturnsFalse ==
    [][IdleCancelStep =>
          /\ pc'[P] = "idle"
          /\ ret'[P].val = "false"
          /\ epochs' = epochs]_vars

C7_IdleCancelStep ==
    IdleCancelStep =>
        /\ epochs' = epochs
        /\ pc'[P] # "tcsp_store"
        /\ ret'[P].op = "tryCancelSlowPath"
        /\ ret'[P].val = IF arg[P].toEpoch = currentlyProcessingLSPEpoch /\ debug_mode
                         THEN "fatal" ELSE "false"

\* C7, as amended: tryCancelSlowPath(newEpoch) called by the preprocess thread while
\* no slow path is in flight leaves the three counters unchanged, and returns false
\* for every newEpoch other than the processing epoch; with newEpoch = processing it
\* fails the ENFORCE of line 58 where that is compiled in, and returns false otherwise.
C7_IdleCancelIsNoOp == [][C7_IdleCancelStep]_vars

\* C7's case: before any slow path was opened, a tryCancelSlowPath has returned false.
C7_Witness ==
    /\ attempt.lastCommit = "none"
    /\ pc[P] = "idle"
    /\ ret[P].op = "tryCancelSlowPath"
    /\ ret[P].val = "false"

----
C8_HookCount ==
    /\ pc[T] = "tce_return" => invoked.hook = IF arg[T].preemptionManager THEN 1 ELSE 0
    /\ pc[T] = "tce_in_hook" => invoked.hook = 1
    /\ pc[T] \notin {"tce_return", "tce_in_hook"} => invoked.hook = 0

C8_HookStep ==
    /\ invoked'.hook # invoked.hook =>
          \/ /\ invoked'.hook = invoked.hook + 1
             /\ pc[T] = "tce_hook"
             /\ arg[T].isCancelable
             /\ arg[T].preemptionManager
          \/ /\ invoked'.hook = 0
             /\ pc[T] = "tce_return"
    /\ (arg[T].isCancelable /\ pc[T] \in TcePastGuard /\ pc'[T] = "idle") => pc[T] = "tce_return"

\* C8: a tryCommitEpoch(e, isCancelable = true, hook, work) that returns has invoked
\* the hook's tryRunScheduledPreemptionTask exactly once, after a commit as after a
\* rollback; the hook is invoked at no other place.
C8_HookRunsExactlyOnce == [] C8_HookCount /\ [][C8_HookStep]_vars

\* C8's case: a rolled-back tryCommitEpoch is about to return, its hook invoked once.
C8_Witness ==
    /\ pc[T] = "tce_return"
    /\ arg[T].isCancelable
    /\ arg[T].preemptionManager
    /\ local[T] = FALSE
    /\ invoked.hook = 1

----
CommittedStatus ==
    [slowPathRunning |-> FALSE, slowPathCanceled |-> FALSE,
     committedEpoch |-> attempt.toEpoch, processingEpoch |-> attempt.toEpoch]

C9_State ==
    (CommitReturned /\ ~attempt.cancelTrue) =>
        /\ attempt.lastCommit = "true"
        /\ Status = CommittedStatus

C9_GetStatus ==
    \A t \in {T, P} :
        (GetStatusReturns(t) /\ CommitReturned /\ ~attempt.cancelTrue) =>
            ret'[t].val = CommittedStatus

\* C9: a cancelable tryCommitEpoch(e, ...) after startCommitEpoch(from, e), with no
\* tryCancelSlowPath returning true in between, returns true, and getStatus then
\* returns slowPathRunning = false, slowPathCanceled = false, committedEpoch = e,
\* processingEpoch = e.
C9_UncanceledCommitSucceeds == [] C9_State /\ [][C9_GetStatus]_vars

\* C9's case: the commit returned true and the typechecking thread's getStatus has
\* returned since.
C9_Witness ==
    /\ attempt.lastCommit = "true"
    /\ ~attempt.cancelTrue
    /\ pc[T] = "idle"
    /\ ret[T].op = "getStatus"
    /\ ret[T].val = CommittedStatus

----
\* startCommitEpoch has returned, no tryCancelSlowPath has returned true since, and
\* the critical section of tryCommitEpoch has not ended.
StartedUncanceled == attempt.inFlight /\ pc[T] \notin ScePcs /\ ~attempt.cancelTrue

RunningStatus ==
    [slowPathRunning |-> TRUE, slowPathCanceled |-> FALSE,
     committedEpoch |-> attempt.fromEpoch, processingEpoch |-> attempt.toEpoch]

C10_GetStatus ==
    \A t \in {T, P} : (GetStatusReturns(t) /\ StartedUncanceled) => ret'[t].val = RunningStatus

\* C10: after startCommitEpoch(from, to) whose preconditions hold has returned, and
\* with no cancellation since, getStatus returns slowPathRunning = true,
\* slowPathCanceled = false, committedEpoch = from, processingEpoch = to.
C10_StartedStatus == [] (StartedUncanceled => Status = RunningStatus) /\ [][C10_GetStatus]_vars

\* C10's case: startCommitEpoch has returned, it changed the committed epoch, and
\* the typechecking thread's getStatus has returned after it.
C10_Witness ==
    /\ StartedUncanceled
    /\ pc[T] = "idle"
    /\ attempt.fromEpoch # attempt.committedBefore
    /\ ret[T].op = "getStatus"
    /\ ret[T].val = RunningStatus

----
C11_Count ==
    \A t \in {T, P} :
        /\ pc[t] = "tce_typecheck" => invoked.typecheck = 1
        /\ pc[t] \in {"tce_assert_set", "tce_begin"} => invoked.typecheck = 0

\* A step of a non-cancelable tryCommitEpoch of thread t that is past the guard.
NonCancelableStep(t) ==
    /\ pc[t] \in {"tce_begin", "tce_typecheck"}
    /\ ~arg[t].isCancelable
    /\ pc'[t] # pc[t]

C11_Step ==
    \A t \in {T, P} :
        NonCancelableStep(t) =>
            /\ epochs' = epochs
            /\ epochMutex' = epochMutex
            /\ pc[t] = "tce_begin" =>
                  /\ pc'[t] = "tce_typecheck"
                  /\ invoked'.typecheck = invoked.typecheck + 1
            /\ pc[t] = "tce_typecheck" =>
                  /\ pc'[t] = "idle"
                  /\ ret'[t] = [op |-> "tryCommitEpoch", val |-> "true"]

\* C11: a tryCommitEpoch with isCancelable = false runs typecheck() exactly once and
\* returns true, and none of its steps changes committed, processing or invalidator,
\* whatever the epoch argument and whatever the three counters hold.
C11_NonCancelableIsFrame == [] C11_Count /\ [][C11_Step]_vars

\* C11's case: while a slow path is in flight and canceled, a non-cancelable
\* tryCommitEpoch of an epoch other than the processing one has returned true.
C11_Witness ==
    /\ attempt.inFlight
    /\ Status.slowPathCanceled
    /\ pc[T] = "idle"
    /\ ret[T] = [op |-> "tryCommitEpoch", val |-> "true"]
    /\ attempt.lastCommit = "pending"

----
ImageStatus ==
    getStatusInternal(image.currentlyProcessingLSPEpoch, image.lastCommittedLSPEpoch,
                      image.lspEpochInvalidator)

RelabelledStatus(st, f) == [st EXCEPT !.committedEpoch = f[@], !.processingEpoch = f[@]]

\* The status of the relabelled run is the relabelled status of the original run.
RelabelSameStatus ==
    /\ ImageStatus = RelabelledStatus(Status, image.f)
    /\ image.lspEpochInvalidator = image.f[lspEpochInvalidator]

\* The relabelled run takes, at every test of the code, the branch the original run
\* takes: the same ENFORCEs fail, the same booleans are returned.
RelabelSameBranches ==
    /\ WasCanceledResult(image.lspEpochInvalidator, image.currentlyProcessingLSPEpoch)
          = WasCanceledResult(lspEpochInvalidator, currentlyProcessingLSPEpoch)
    /\ \A t \in {T, P} :
          /\ pc[t] = "sce_lock" =>
                /\ EnforceFails(image.f[arg[t].fromEpoch] # image.f[arg[t].toEpoch])
                      = EnforceFails(arg[t].fromEpoch # arg[t].toEpoch)
                /\ EnforceFails(image.f[arg[t].toEpoch] # image.currentlyProcessingLSPEpoch)
                      = EnforceFails(arg[t].toEpoch # currentlyProcessingLSPEpoch)
                /\ EnforceFails(image.f[arg[t].toEpoch] # image.lastCommittedLSPEpoch)
                      = EnforceFails(arg[t].toEpoch # lastCommittedLSPEpoch)
          /\ pc[t] = "tcsp_lock" =>
                /\ EnforceFails(image.f[arg[t].toEpoch] # image.currentlyProcessingLSPEpoch)
                      = EnforceFails(arg[t].toEpoch # currentlyProcessingLSPEpoch)
                /\ CancelDecision(image.currentlyProcessingLSPEpoch, image.lastCommittedLSPEpoch,
                                  image.f[arg[t].toEpoch])
                      = CancelDecision(currentlyProcessingLSPEpoch, lastCommittedLSPEpoch,
                                       arg[t].toEpoch)
          /\ (pc[t] = "tce_begin" /\ EnforcedMode(arg[t].isCancelable)) =>
                EnforceFails(image.currentlyProcessingLSPEpoch = image.f[arg[t].toEpoch])
                   = EnforceFails(currentlyProcessingLSPEpoch = arg[t].toEpoch)
          /\ pc[t] = "tce_lock" =>
                /\ CommitDecision(image.currentlyProcessingLSPEpoch, image.lspEpochInvalidator)
                      = CommitDecision(currentlyProcessingLSPEpoch, lspEpochInvalidator)
                /\ CommitDecision(currentlyProcessingLSPEpoch, lspEpochInvalidator) =>
                      EnforceFails(image.lastCommittedLSPEpoch # image.currentlyProcessingLSPEpoch)
                         = EnforceFails(lastCommittedLSPEpoch # currentlyProcessingLSPEpoch)

\* C12 as stated, in its part on results: for every bijection on the epoch values,
\* applying it to the epoch arguments of a call sequence gives the same boolean
\* results and fatal outcomes.
C12_EveryRelabellingAgrees == RelabelSameBranches

\* C12, as amended: for every bijection on the epoch values that fixes 0, the value
\* the counters start with (bijections onto values from 2^31 on and order-reversing
\* ones included), applying it to the epoch arguments of a call sequence gives the
\* same results and fatal outcomes, and statuses whose epochs are the images of the
\* original ones.
C12_RelabellingFixingZeroAgrees ==
    image.f[0] = 0 => RelabelSameBranches /\ RelabelSameStatus

\* C12's case: under the relabelling onto values from 2^31 on, a canceled attempt has
\* been rolled back and another attempt has been started and canceled.
C12_Witness ==
    /\ image.f = Negate
    /\ attempt.lastCommit = "false"
    /\ ret[P] = [op |-> "tryCancelSlowPath", val |-> "true"]
    /\ image.currentlyProcessingLSPEpoch < 0
    /\ image.currentlyProcessingLSPEpoch = image.lastCommittedLSPEpoch

----
RolledBackStatus ==
    [slowPathRunning |-> FALSE, slowPathCanceled |-> FALSE,
     committedEpoch |-> attempt.fromEpoch, processingEpoch |-> attempt.fromEpoch]

C13_State ==
    attempt.lastCommit = "false" =>
        /\ lastCommittedLSPEpoch = attempt.fromEpoch
        /\ currentlyProcessingLSPEpoch = attempt.fromEpoch
        /\ lspEpochInvalidator = attempt.fromEpoch
        /\ Status = RolledBackStatus

C13_GetStatus ==
    \A t \in {T, P} :
        (GetStatusReturns(t) /\ attempt.lastCommit = "false") => ret'[t].val = RolledBackStatus

\* C13: after a cancelable tryCommitEpoch has returned false, committed, processing
\* and invalidator all equal the `from` of the most recent startCommitEpoch, and
\* getStatus returns slowPathRunning = false, slowPathCanceled = false,
\* committedEpoch = from, processingEpoch = from.
C13_RollbackLeavesFrom == [] C13_State /\ [][C13_GetStatus]_vars

\* C13's case: the rollback happened with invalidator, processing and `from` three
\* different epochs, and the typechecking thread's getStatus has returned after it.
C13_Witness ==
    /\ attempt.lastCommit = "false"
    /\ attempt.fromEpoch # attempt.committedBefore
    /\ attempt.fromEpoch # 0
    /\ pc[T] = "idle"
    /\ ret[T].op = "getStatus"
    /\ ret[T].val = RolledBackStatus

----
\* C14: a non-cancelable tryCommitEpoch issued while a slow path opened by
\* startCommitEpoch is in flight is rejected: it never returns true leaving getStatus
\* with slowPathRunning = true.
C14_NonCancelableRejectedInFlight ==
    ~ /\ pc[T] = "idle"
      /\ ret[T] = [op |-> "tryCommitEpoch", val |-> "true"]
      /\ attempt.lastCommit = "pending"
      /\ attempt.inFlight
      /\ Status.slowPathRunning

----
\* C15: every execution of assertConsistentThread, the read of the slot and the write
\* that fills it, happens while the calling thread holds epochMutex, in
\* tryCancelSlowPath as in tryCommitEpoch.
C15_GuardUnderMutex ==
    \A t \in Threads :
        pc[t] \in {"tcsp_assert_set", "tce_assert_set"} => epochMutex = t

----
\* A slow path is in flight: a startCommitEpoch has been through its critical section
\* and the critical section of its cancelable tryCommitEpoch has not ended.
SlowPathInFlight == attempt.inFlight /\ pc[T] \notin ScePcs

\* C16: in every state in which the mutex is free, committed = processing holds
\* exactly when no slow path is in flight, that is when no startCommitEpoch awaits
\* the critical section of its cancelable tryCommitEpoch.
C16_IdleIffCommittedIsProcessing ==
    epochMutex = "free" =>
        ((lastCommittedLSPEpoch = currentlyProcessingLSPEpoch) <=> ~SlowPathInFlight)

\* C16's case: after an attempt that committed, a second one is in flight and has
\* been canceled, the mutex being free.
C16_Witness ==
    /\ epochMutex = "free"
    /\ SlowPathInFlight
    /\ attempt.cancelTrue
    /\ attempt.committedBefore # 0
    /\ lastCommittedLSPEpoch # currentlyProcessingLSPEpoch

----
C17_StaysCanceled ==
    (attempt.inFlight /\ attempt.cancelTrue /\ pc[T] # "tce_rb_invalidator") =>
        /\ Status.slowPathCanceled
        /\ lspEpochInvalidator # currentlyProcessingLSPEpoch

C17_LaterCancel ==
    /\ (/\ pc[P] = "tcsp_lock" /\ pc'[P] # "tcsp_lock"
        /\ attempt.inFlight /\ attempt.cancelTrue
        /\ arg[P].toEpoch # attempt.toEpoch) => pc'[P] = "tcsp_store"
    /\ (pc[P] = "tcsp_store" /\ pc'[P] # "tcsp_store") =>
          /\ ret'[P] = [op |-> "tryCancelSlowPath", val |-> "true"]
          /\ lspEpochInvalidator' = arg[P].toEpoch
          /\ lastCommittedLSPEpoch' = lastCommittedLSPEpoch
          /\ currentlyProcessingLSPEpoch' = currentlyProcessingLSPEpoch

\* C17: once a tryCancelSlowPath has returned true after startCommitEpoch(_, e), every
\* later tryCancelSlowPath(newEpoch) with newEpoch # e that takes the mutex before
\* tryCommitEpoch's critical section returns true too and only overwrites the
\* invalidator; slowPathCanceled stays true until the rollback, and no cancellation
\* sets the invalidator back to processing.
C17_CancellationIsSticky == [] C17_StaysCanceled /\ [][C17_LaterCancel]_vars

\* C17's case: in an attempt that a cancel has already canceled, a second cancel,
\* of another epoch, is about to overwrite the invalidator.
C17_Witness ==
    /\ attempt.inFlight
    /\ attempt.cancelTrue
    /\ pc[P] = "tcsp_store"
    /\ arg[P].toEpoch # lspEpochInvalidator

----
C18_HookOutsideMutex ==
    /\ pc[T] \in {"tce_hook", "tce_in_hook"} =>
          /\ epochMutex # T
          /\ ~Status.slowPathRunning
    /\ hookStatus # NoStatus => pc[T] = "tce_return"
    /\ \A st \in hookStatus : st.slowPathRunning = FALSE

\* C18: the hook is invoked only after the commit-or-rollback critical section has
\* released the mutex: while tryRunScheduledPreemptionTask runs the typechecking
\* thread does not hold the mutex, and a getStatus made from inside the hook
\* completes and reports slowPathRunning = false.
C18_HookAfterUnlock ==
    /\ [] C18_HookOutsideMutex
    /\ (pc[T] = "tce_in_hook") ~> (pc[T] = "tce_return" /\ hookStatus # NoStatus)

\* C18's case: after a rollback, the getStatus made from inside the hook has returned.
C18_Witness ==
    /\ pc[T] = "tce_return"
    /\ local[T] = FALSE
    /\ hookStatus # NoStatus
    /\ \A st \in hookStatus : ~st.slowPathRunning /\ st.committedEpoch = attempt.fromEpoch

----
PreprocessInCall == pc[P] \in {"tcsp_assert_set", "tcsp_lock", "tcsp_store",
                               "gs_lock", "wel_lock", "wel_lambda"}

\* C19: the typechecking thread does not hold the mutex while typecheck() executes
\* inside tryCommitEpoch, in either mode; so a tryCancelSlowPath, getStatus or
\* withEpochLock of the preprocess thread completes whether or not typecheck()
\* ever returns, the mutex being fair.
C19_WorkRunsOutsideMutex ==
    /\ [] (pc[T] = "tce_typecheck" => epochMutex # T)
    /\ PreprocessInCall ~> (pc[P] \in {"idle", "fatal"})

\* C19's case: while typecheck() is executing in the cancelable mode, a
\* tryCancelSlowPath of the preprocess thread has returned true.
C19_Witness ==
    /\ pc[T] = "tce_typecheck"
    /\ arg[T].isCancelable
    /\ epochMutex = "free"
    /\ ret[P] = [op |-> "tryCancelSlowPath", val |-> "true"]
    /\ attempt.cancelTrue

----
\* The worker's poll returns in this step, both its loads made within the window of
\* one attempt.
PollInWindowReturns == pc[W] = "wtc_second" /\ pc'[W] = "idle" /\ local[W].window /\ Window

C20_Poll ==
    PollInWindowReturns =>
        /\ local[W].canceled => ret'[W].val = "true"
        /\ ret'[W].val = "true" => attempt.cancelTrue
        /\ ~attempt.cancelTrue => ret'[W].val = "false"

\* C20: a wasTypecheckingCanceled made by a worker after startCommitEpoch(_, e) has
\* returned and before the critical section of tryCommitEpoch(e, ...) begins returns
\* true if a tryCancelSlowPath of this attempt had stored the invalidator before the
\* poll began, and false if none has stored it when the poll ends: it never reports
\* a cancellation that was not requested for this attempt.
C20_PollIsExactInWindow == [][C20_Poll]_vars

\* C20's case: a poll made within the window, after a cancellation of the attempt had
\* been stored, has loaded processing and is about to load the invalidator.
C20_Witness ==
    /\ Window
    /\ attempt.cancelTrue
    /\ pc[W] = "wtc_second"
    /\ local[W].window
    /\ local[W].canceled
    /\ local[W].first = "processing"
    /\ WasCanceledResult(lspEpochInvalidator, local[W].val)

====
